---- MODULE Spec2Model ----
(***************************************************************************)
(* Model of the Vacation Agent API request pipeline (app/main.py) and its  *)
(* plan store (app/db.py).                                                  *)
(*                                                                          *)
(* Python values are tagged records [ty, v]; Python strings are sequences   *)
(* of one-character strings, so that strip/isdigit/split/slicing can be     *)
(* computed as the code computes them.  Wall-clock values (timestamps,      *)
(* duration_ms, histogram samples) are not modelled: only the number of     *)
(* observations of each histogram is kept.                                  *)
(***************************************************************************)
EXTENDS Integers, Sequences, FiniteSets, TLC

VARIABLES
    pc,               \* position of each request inside create_plan
    query,            \* req.query
    request_id,       \* local request_id
    query_preview,    \* local query_preview
    parsed,           \* local parsed (ParsedTrip) or Unset
    decision,         \* local decision (Decision) or Unset
    tool_calls,       \* local tool_calls
    coords,           \* (lat, lon) held inside get_weather_daily
    weather,          \* local weather (WeatherResult) or NoneV
    weather_summary,  \* local weather_summary
    itinerary,        \* local itinerary or Unset
    exc,              \* exception in flight / being handled, or NoExc
    result,           \* what the caller of create_plan gets
    ext_calls,        \* outbound calls made on behalf of each request
    uuids,            \* number of identifiers handed out by uuid.uuid4
    audit_log,        \* lines of data/audit_log.jsonl
    plans,            \* rows of table plans
    REQUESTS_TOTAL,
    REQUESTS_OK_TOTAL,
    REQUESTS_ERROR_TOTAL,
    REQUEST_LATENCY,  \* number of observations
    LLM_LATENCY,      \* number of observations
    TOOL_LATENCY,     \* number of observations, per label
    TOOL_CALLS_TOTAL, \* per label
    trip,             \* argument of a stand-alone decide_actions call
    planned,          \* result of that call, or Unset
    call,             \* a stand-alone call of another function: its name and arguments
    ret               \* result of that call, or Unset

vars == <<pc, query, request_id, query_preview, parsed, decision, tool_calls,
          coords, weather, weather_summary, itinerary, exc, result, ext_calls,
          uuids, audit_log, plans, REQUESTS_TOTAL, REQUESTS_OK_TOTAL,
          REQUESTS_ERROR_TOTAL, REQUEST_LATENCY, LLM_LATENCY, TOOL_LATENCY,
          TOOL_CALLS_TOTAL, trip, planned, call, ret>>

locals == <<query, request_id, query_preview, parsed, decision, tool_calls,
            coords, weather, weather_summary, itinerary>>

metrics == <<REQUESTS_TOTAL, REQUESTS_OK_TOTAL, REQUESTS_ERROR_TOTAL,
             REQUEST_LATENCY, LLM_LATENCY, TOOL_LATENCY, TOOL_CALLS_TOTAL>>

planner == <<trip, planned, call, ret>>

----
\* Bounds

NumRequests == 1
MaxInterests == 2
MaxReply == 3
MaxForecast == 2
MaxArray == 5
NumConcurrent == 2

Requests == 1..NumRequests

----
\* Python values

NoneV == [ty |-> "none", v |-> 0]
PyInt(n) == [ty |-> "int", v |-> n]
PyStr(s) == [ty |-> "str", v |-> s]
PyList(l) == [ty |-> "list", v |-> l]
Unset == [ty |-> "unset", v |-> 0]

\* bool(x) for the value kinds used in conditions
Truthy(x) ==
    CASE x.ty = "none" -> FALSE
      [] x.ty = "int"  -> x.v # 0
      [] x.ty = "str"  -> x.v # <<>>
      [] x.ty = "list" -> x.v # <<>>
      [] OTHER         -> TRUE

Min(a, b) == IF a <= b THEN a ELSE b

s_May == <<"M", "a", "y">>
s_Lisbon == <<"L", "i", "s">>
s_Atlantis == <<"A", "t", "l">>
s_Porto == <<"P", "o", "r">>
s_food == <<"f", "o", "o", "d">>
s_culture == <<"a", "r", "t">>

----
\* Exceptions

NoExc == [type |-> "none", status_code |-> 0, detail |-> <<>>]
HTTPException(code, d) == [type |-> "HTTPException", status_code |-> code, detail |-> d]
PyError(t, msg) == [type |-> t, status_code |-> 0, detail |-> msg]

----
\* ParsedTrip and Decision

ParsedTrip(days, month, budget, interests, dep, dest) ==
    [days |-> days, month |-> month, budget_eur |-> budget,
     interests |-> interests, departure_city |-> dep, destination |-> dest]

Decision(a, n) == [actions |-> a, notes |-> n]

InList(x, l) == \E i \in 1..Len(l) : l[i] = x

\* decide_actions with the fallback appended without testing for earlier actions
decide_actions_unguarded_fallback(p) ==
    LET a1 == IF ~Truthy(p.destination) THEN <<"need_destination">> ELSE <<>>
        n1 == IF ~Truthy(p.destination)
              THEN <<"Destination missing -> later we will suggest options.">>
              ELSE <<>>
        w  == Truthy(p.month) /\ p.destination.ty # "none"
        a2 == IF w THEN Append(a1, "get_weather") ELSE a1
        n2 == IF w
              THEN Append(n1, "Month present -> weather helps plan indoor/outdoor days.")
              ELSE n1
        t  == Truthy(p.interests) /\ p.destination.ty # "none"
        a3 == IF t THEN Append(a2, "get_attractions") ELSE a2
        n3 == IF t
              THEN Append(n2, "Interests present -> fetch points of interest matching interests.")
              ELSE n2
    IN Decision(Append(a3, "basic_plan"),
                Append(n3, "No tool calls needed -> generate a basic plan."))

\* decide_actions with the attractions rule evaluated before the weather rule
decide_actions_swapped_rules(p) ==
    LET a1 == IF ~Truthy(p.destination) THEN <<"need_destination">> ELSE <<>>
        n1 == IF ~Truthy(p.destination)
              THEN <<"Destination missing -> later we will suggest options.">>
              ELSE <<>>
        t  == Truthy(p.interests) /\ p.destination.ty # "none"
        a2 == IF t THEN Append(a1, "get_attractions") ELSE a1
        n2 == IF t
              THEN Append(n1, "Interests present -> fetch points of interest matching interests.")
              ELSE n1
        w  == Truthy(p.month) /\ p.destination.ty # "none"
        a3 == IF w THEN Append(a2, "get_weather") ELSE a2
        n3 == IF w
              THEN Append(n2, "Month present -> weather helps plan indoor/outdoor days.")
              ELSE n2
        a4 == IF a3 = <<>> THEN Append(a3, "basic_plan") ELSE a3
        n4 == IF a3 = <<>>
              THEN Append(n3, "No tool calls needed -> generate a basic plan.")
              ELSE n3
    IN Decision(a4, n4)

decide_actions(p) ==
    LET a1 == IF ~Truthy(p.destination) THEN <<"need_destination">> ELSE <<>>
        n1 == IF ~Truthy(p.destination)
              THEN <<"Destination missing -> later we will suggest options.">>
              ELSE <<>>
        w  == Truthy(p.month) /\ p.destination.ty # "none"
        a2 == IF w THEN Append(a1, "get_weather") ELSE a1
        n2 == IF w
              THEN Append(n1, "Month present -> weather helps plan indoor/outdoor days.")
              ELSE n1
        t  == Truthy(p.interests) /\ p.destination.ty # "none"
        a3 == IF t THEN Append(a2, "get_attractions") ELSE a2
        n3 == IF t
              THEN Append(n2, "Interests present -> fetch points of interest matching interests.")
              ELSE n2
        a4 == IF a3 = <<>> THEN Append(a3, "basic_plan") ELSE a3
        n4 == IF a3 = <<>>
              THEN Append(n3, "No tool calls needed -> generate a basic plan.")
              ELSE n3
    IN Decision(a4, n4)

----
\* Program constants

DaysMin == 1
DaysMax == 30
BudgetMax == 20000
DefaultDays == 4
PreviewLen == 200
BadGateway == 502
InternalError == 500

----
\* Normalizer and Trip Parser

Get(d, k) == IF k \in DOMAIN d THEN d[k] ELSE NoneV

Digits == {"0", "1", "2", "3", "4", "5", "6", "7", "8", "9"}

DigitVal(c) ==
    CASE c = "0" -> 0 [] c = "1" -> 1 [] c = "2" -> 2 [] c = "3" -> 3
      [] c = "4" -> 4 [] c = "5" -> 5 [] c = "6" -> 6 [] c = "7" -> 7
      [] c = "8" -> 8 [] c = "9" -> 9

RECURSIVE lstrip(_)
lstrip(s) == IF s # <<>> /\ Head(s) = " " THEN lstrip(Tail(s)) ELSE s

RECURSIVE rstrip(_)
rstrip(s) ==
    IF s # <<>> /\ s[Len(s)] = " " THEN rstrip(SubSeq(s, 1, Len(s) - 1)) ELSE s

strip(s) == rstrip(lstrip(s))

isdigit(s) == s # <<>> /\ \A i \in 1..Len(s) : s[i] \in Digits

RECURSIVE int(_)
int(s) == IF s = <<>> THEN 0 ELSE 10 * int(SubSeq(s, 1, Len(s) - 1)) + DigitVal(s[Len(s)])

\* the days / budget_eur branches
normalize_int_field(d, k) ==
    IF Get(d, k).ty = "str" /\ isdigit(strip(d[k].v))
    THEN [d EXCEPT ![k] = PyInt(int(strip(d[k].v)))]
    ELSE d

\* index of the first occurrence of c in s, 0 if there is none
RECURSIVE Find(_, _, _)
Find(s, c, i) ==
    IF i > Len(s) THEN 0 ELSE IF s[i] = c THEN i ELSE Find(s, c, i + 1)

\* s.split(",")
RECURSIVE split(_)
split(s) ==
    LET i == Find(s, ",", 1)
    IN IF i = 0 THEN <<s>>
       ELSE <<SubSeq(s, 1, i - 1)>> \o split(SubSeq(s, i + 1, Len(s)))

JsonFail == [ok |-> FALSE, val |-> NoneV]
JsonOk(x) == [ok |-> TRUE, val |-> x]

\* json.loads of a scalar: a number without leading zero, or a quoted string
json_scalar(s) ==
    IF isdigit(s) /\ (Len(s) = 1 \/ s[1] # "0")
    THEN JsonOk(PyInt(int(s)))
    ELSE IF Len(s) >= 2 /\ s[1] = "\"" /\ s[Len(s)] = "\""
            /\ Find(SubSeq(s, 2, Len(s) - 1), "\"", 1) = 0
         THEN JsonOk(PyStr(SubSeq(s, 2, Len(s) - 1)))
         ELSE JsonFail

\* json.loads on the texts the model feeds it: scalars and flat lists of
\* scalars (text with no brackets, commas or quotes inside a quoted string)
json_loads(text) ==
    LET s == strip(text)
    IN IF Len(s) >= 2 /\ s[1] = "[" /\ s[Len(s)] = "]"
       THEN LET inner == strip(SubSeq(s, 2, Len(s) - 1))
                pieces == split(inner)
                items == [i \in 1..Len(pieces) |-> json_scalar(strip(pieces[i]))]
            IN IF inner = <<>> THEN JsonOk(PyList(<<>>))
               ELSE IF \A i \in 1..Len(items) : items[i].ok
                    THEN JsonOk(PyList([i \in 1..Len(items) |-> items[i].val]))
                    ELSE JsonFail
       ELSE json_scalar(s)

\* [x.strip() for x in s.split(",") if x.strip()]
RECURSIVE stripped_nonempty(_)
stripped_nonempty(pieces) ==
    IF pieces = <<>> THEN <<>>
    ELSE IF strip(Head(pieces)) # <<>>
         THEN <<PyStr(strip(Head(pieces)))>> \o stripped_nonempty(Tail(pieces))
         ELSE stripped_nonempty(Tail(pieces))

\* normalize_interests storing whatever the text decodes to, list or not
normalize_interests_unchecked(d) ==
    IF Get(d, "interests").ty = "str"
    THEN LET s == strip(d["interests"].v)
             r == json_loads(s)
         IN IF r.ok
            THEN [d EXCEPT !["interests"] = r.val]
            ELSE IF Find(s, ",", 1) # 0
                 THEN [d EXCEPT !["interests"] = PyList(stripped_nonempty(split(s)))]
                 ELSE [d EXCEPT !["interests"] =
                          IF s # <<>> THEN PyList(<<PyStr(s)>>) ELSE PyList(<<>>)]
    ELSE d

\* the interests branch
normalize_interests(d) ==
    IF Get(d, "interests").ty = "str"
    THEN LET s == strip(d["interests"].v)
             r == json_loads(s)
         IN IF r.ok
            THEN IF r.val.ty = "list" THEN [d EXCEPT !["interests"] = r.val] ELSE d
            ELSE IF Find(s, ",", 1) # 0
                 THEN [d EXCEPT !["interests"] = PyList(stripped_nonempty(split(s)))]
                 ELSE [d EXCEPT !["interests"] =
                          IF s # <<>> THEN PyList(<<PyStr(s)>>) ELSE PyList(<<>>)]
    ELSE d

normalize_llm_trip_dict(d) ==
    normalize_interests(normalize_int_field(normalize_int_field(d, "days"), "budget_eur"))

\* pydantic validation of one Optional[int] field with ge/le bounds
ValidInt(x, lo, hi) == x.ty = "none" \/ (x.ty = "int" /\ x.v >= lo /\ x.v <= hi)

ValidOptStr(x) == x.ty \in {"none", "str"}

\* ParsedTrip.model_validate: TRUE iff the mapping is accepted
SchemaAccepts(d) ==
    /\ ValidInt(Get(d, "days"), DaysMin, DaysMax)
    /\ Get(d, "month").ty \in {"none", "str", "int"}
    /\ ValidInt(Get(d, "budget_eur"), 0, BudgetMax)
    /\ \/ "interests" \notin DOMAIN d
       \/ /\ d["interests"].ty = "list"
          /\ \A i \in 1..Len(d["interests"].v) : d["interests"].v[i].ty = "str"
    /\ ValidOptStr(Get(d, "departure_city"))
    /\ ValidOptStr(Get(d, "destination"))

model_validate(d) ==
    ParsedTrip(Get(d, "days"), Get(d, "month"), Get(d, "budget_eur"),
               IF "interests" \in DOMAIN d THEN d["interests"] ELSE PyList(<<>>),
               Get(d, "departure_city"), Get(d, "destination"))

Raise(e) == [exc |-> e, val |-> NoneV]
Return(x) == [exc |-> NoExc, val |-> x]

\* reply: what the Ollama endpoint does for this call
parse_query_with_llm(q, reply) ==
    CASE reply.kind = "ConnectionError" ->
            Raise(HTTPException(BadGateway, <<"Cannot reach Ollama">>))
      [] reply.kind = "RequestError" ->
            Raise(HTTPException(BadGateway, <<"Ollama call failed">>))
      [] reply.kind = "text" /\ reply.json.ty = "invalid" ->
            Raise(HTTPException(BadGateway, <<"LLM returned non-JSON">>))
      [] reply.kind = "text" /\ reply.json.ty = "dict" ->
            LET raw_dict == normalize_llm_trip_dict(reply.json.v)
            IN IF SchemaAccepts(raw_dict)
               THEN Return(model_validate(raw_dict))
               ELSE Raise(HTTPException(BadGateway,
                        <<"LLM output did not match schema even after normalization">>))
      [] OTHER ->
            \* valid JSON that is not an object: d.get fails in the normalizer
            Raise(PyError("AttributeError", <<"object has no attribute 'get'">>))

----
\* Enrichment Fetcher

\* reply: what the geocoding endpoint does for this call
geocode_city(city, reply) ==
    IF reply.kind = "ok"
    THEN IF reply.results = <<>>
         THEN Raise(HTTPException(BadGateway,
                  <<"Geocoding returned no results for", city>>))
         ELSE Return(<<reply.results[1].latitude, reply.results[1].longitude>>)
    ELSE Raise(HTTPException(BadGateway, <<"Geocoding failed">>))

WeatherResult(city, lat, lon, daily) ==
    [ty |-> "WeatherResult", city |-> city, latitude |-> lat, longitude |-> lon,
     daily |-> daily]

\* the part of get_weather_daily after geocode_city returned
\* reply: what the forecast endpoint does for this call
fetch_forecast(city, latlon, reply) ==
    IF reply.kind = "ok"
    THEN Return(WeatherResult(city, latlon[1], latlon[2], reply.daily))
    ELSE Raise(HTTPException(BadGateway, <<"Weather API failed">>))

\* daily.get(k) or []
OrEmpty(daily, k) == IF Truthy(Get(daily, k)) THEN daily[k] ELSE PyList(<<>>)

NoForecast == [ty |-> "text", v |-> <<"No forecast available.">>]
Unknown == [ty |-> "text", v |-> <<"Unknown">>]

\* summarize_weather looping over the arrays without the max_days limit
summarize_weather_ignores_horizon(w, max_days) ==
    LET dates == OrEmpty(w.daily, "time")
        tmax == OrEmpty(w.daily, "temperature_2m_max")
        tmin == OrEmpty(w.daily, "temperature_2m_min")
        rain == OrEmpty(w.daily, "precipitation_sum")
    IN IF \E a \in {dates, tmax, tmin, rain} : a.ty # "list"
       THEN Raise(PyError("TypeError", <<"object has no len()">>))
       ELSE LET n == Min(Min(Len(dates.v), Len(tmax.v)),
                         Min(Len(tmin.v), Len(rain.v)))
                lines == [i \in 1..n |->
                            [date |-> dates.v[i], tmin |-> tmin.v[i],
                             tmax |-> tmax.v[i], rain |-> rain.v[i]]]
            IN Return(IF lines # <<>> THEN [ty |-> "lines", v |-> lines]
                      ELSE NoForecast)

summarize_weather(w, max_days) ==
    LET dates == OrEmpty(w.daily, "time")
        tmax == OrEmpty(w.daily, "temperature_2m_max")
        tmin == OrEmpty(w.daily, "temperature_2m_min")
        rain == OrEmpty(w.daily, "precipitation_sum")
    IN IF \E a \in {dates, tmax, tmin, rain} : a.ty # "list"
       THEN Raise(PyError("TypeError", <<"object has no len()">>))
       ELSE LET n == Min(max_days, Min(Min(Len(dates.v), Len(tmax.v)),
                                       Min(Len(tmin.v), Len(rain.v))))
                lines == [i \in 1..n |->
                            [date |-> dates.v[i], tmin |-> tmin.v[i],
                             tmax |-> tmax.v[i], rain |-> rain.v[i]]]
            IN Return(IF lines # <<>> THEN [ty |-> "lines", v |-> lines]
                      ELSE NoForecast)

----
\* Itinerary Generator

Placeholder(k) == [text |-> "Day N: Free exploration.", day |-> k]
Described(t) == [text |-> t, day |-> 0]

\* parsed.days or 4
EffectiveDays(p) == IF Truthy(p.days) THEN p.days.v ELSE DefaultDays

\* fit_length numbering the placeholders from the loop index instead of i+1
fit_length_zero_based(it, days) ==
    IF Len(it) > days THEN SubSeq(it, 1, days)
    ELSE IF Len(it) < days
         THEN it \o [i \in 1..(days - Len(it)) |-> Placeholder(Len(it) + i - 1)]
         ELSE it

\* trim / pad to exactly days entries
fit_length(it, days) ==
    IF Len(it) > days THEN SubSeq(it, 1, days)
    ELSE IF Len(it) < days
         THEN it \o [i \in 1..(days - Len(it)) |-> Placeholder(Len(it) + i)]
         ELSE it

DayKeySentinel == 999

\* "".join(ch for ch in k if ch.isdigit())
RECURSIVE digits_of(_)
digits_of(k) ==
    IF k = <<>> THEN <<>>
    ELSE IF Head(k) \in Digits THEN <<Head(k)>> \o digits_of(Tail(k))
         ELSE digits_of(Tail(k))

day_key(k) == IF isdigit(digits_of(k)) THEN int(digits_of(k)) ELSE DayKeySentinel

\* sorted(data.items(), key=...): stable, items is the mapping in insertion
\* order, each item a record [k, val]
RECURSIVE sorted_items(_)
sorted_items(items) ==
    IF items = <<>> THEN <<>>
    ELSE LET h == Head(items)
             rest == sorted_items(Tail(items))
             n == Cardinality({i \in 1..Len(rest) : day_key(rest[i].k) < day_key(h.k)})
         IN SubSeq(rest, 1, n) \o <<h>> \o SubSeq(rest, n + 1, Len(rest))

\* [v for _, v in items if isinstance(v, str)]
RECURSIVE string_values(_)
string_values(items) ==
    IF items = <<>> THEN <<>>
    ELSE IF Head(items).val.ty = "str"
         THEN <<Described(Head(items).val.v)>> \o string_values(Tail(items))
         ELSE string_values(Tail(items))

\* reply: what the Ollama endpoint does for this call
generate_itinerary_with_llm(p, summary, reply) ==
    LET days == EffectiveDays(p)
    IN CASE reply.kind # "text" ->
               Raise(HTTPException(BadGateway, <<"Ollama itinerary call failed">>))
         [] reply.kind = "text" /\ reply.json.ty = "list"
              /\ \A i \in 1..Len(reply.json.v) : reply.json.v[i].ty = "str" ->
               Return(fit_length([i \in 1..Len(reply.json.v) |->
                                    Described(reply.json.v[i].v)], days))
         [] reply.kind = "text" /\ reply.json.ty = "items"
              /\ string_values(sorted_items(reply.json.v)) # <<>> ->
               Return(fit_length(string_values(sorted_items(reply.json.v)), days))
         [] OTHER ->
               Raise(HTTPException(BadGateway, <<"LLM returned invalid itinerary JSON">>))

----
\* Plan store (app/db.py) and audit log

InsertPlanParams ==
    {"plan_id", "created_at", "query_preview", "parsed", "decision", "weather",
     "attractions", "itinerary", "status", "duration_ms"}

\* parameters of insert_plan that have a default value
InsertPlanDefaults == {}

Clock == [ty |-> "clock", v |-> 0]

\* kw: the keyword arguments of the call; table: the rows of plans
insert_plan(kw, table) ==
    IF (InsertPlanParams \ InsertPlanDefaults) \ DOMAIN kw # {}
    THEN [exc |-> PyError("TypeError", <<"missing required keyword-only argument">>),
          table |-> table]
    ELSE IF \E row \in table : row.id = kw.plan_id
         THEN [exc |-> PyError("IntegrityError", <<"UNIQUE constraint failed: plans.id">>),
               table |-> table]
         ELSE [exc |-> NoExc,
               table |-> table \cup
                  {[id |-> kw.plan_id, query_preview |-> kw.query_preview,
                    parsed_json |-> kw.parsed, decision_json |-> kw.decision,
                    weather_json |-> kw.weather, itinerary_json |-> kw.itinerary,
                    status |-> kw.status]}]

\* write_audit_log opening the file for writing instead of appending
write_audit_log_truncating(log, entry) == <<entry>>

\* lines 353-356: one line appended to the audit file
write_audit_log(log, entry) == Append(log, entry)

----
\* Inputs: queries and what the external endpoints may answer

\* a query of n characters, each character distinct
Text(n) == [i \in 1..n |-> i]

Queries == {Text(5), Text(PreviewLen + 1)}

JsonInvalid == [ty |-> "invalid", v |-> 0]
JsonDict(d) == [ty |-> "dict", v |-> d]

TripDicts ==
    { \* needs the normalizer: days and interests arrive as strings
      [days |-> PyStr(<<" ", "2">>), month |-> PyStr(s_May), budget_eur |-> PyInt(800),
       interests |-> PyStr(s_food \o <<",", " ">> \o s_culture),
       departure_city |-> PyStr(s_Porto), destination |-> PyStr(s_Lisbon)],
      \* every field null
      [days |-> NoneV, month |-> NoneV, budget_eur |-> NoneV, interests |-> PyList(<<>>),
       departure_city |-> NoneV, destination |-> NoneV],
      \* empty destination with a month
      [month |-> PyStr(s_May), destination |-> PyStr(<<>>)],
      \* out of range day count
      [days |-> PyInt(DaysMax + 1), destination |-> PyStr(s_Lisbon)],
      \* numeric month, unknown place
      [days |-> PyInt(2), month |-> PyInt(5), destination |-> PyStr(s_Atlantis)],
      \* interests only
      [interests |-> PyList(<<PyStr(s_food)>>), destination |-> PyStr(s_Lisbon)] }

ParseReplies ==
    {[kind |-> "ConnectionError"], [kind |-> "RequestError"],
     [kind |-> "text", json |-> JsonInvalid],
     [kind |-> "text", json |-> PyList(<<>>)]}
    \cup {[kind |-> "text", json |-> JsonDict(d)] : d \in TripDicts}

GeocodeReplies ==
    {[kind |-> "error"], [kind |-> "ok", results |-> <<>>],
     [kind |-> "ok", results |-> <<[latitude |-> 38, longitude |-> -9]>>]}

Forecast(n) ==
    [time |-> PyList([i \in 1..n |-> i]),
     temperature_2m_max |-> PyList([i \in 1..n |-> 20 + i]),
     temperature_2m_min |-> PyList([i \in 1..n |-> 10 + i]),
     precipitation_sum |-> PyList([i \in 1..n |-> 0])]

Dailies ==
    {Forecast(n) : n \in 0..MaxForecast}
    \cup {[time |-> PyInt(5)]}

ForecastReplies ==
    {[kind |-> "error"]} \cup {[kind |-> "ok", daily |-> d] : d \in Dailies}

DigitChar(i) == <<"0", "1", "2", "3", "4", "5", "6", "7", "8", "9">>[i + 1]

DayText(i) == PyStr(<<"d", DigitChar(i)>>)

\* a JSON object as the sequence of its items, in the order of the text
JsonItems(items) == [ty |-> "items", v |-> items]

Item(k, val) == [k |-> k, val |-> val]

GenerateReplies ==
    {[kind |-> "RequestError"], [kind |-> "text", json |-> JsonInvalid],
     [kind |-> "text", json |-> PyList(<<PyInt(1)>>)],
     [kind |-> "text", json |-> JsonItems(<<Item(<<"d", "2">>, DayText(2)),
                                            Item(<<"d", "1">>, DayText(1))>>)]}
    \cup {[kind |-> "text", json |-> PyList([i \in 1..m |-> DayText(i)])] : m \in 0..MaxReply}

----
\* create_plan

Positions ==
    {"idle", "parse", "geocode", "forecast", "generate", "generated", "insert_ok",
     "except_http", "except_other", "insert_err", "done"}

Pending == [kind |-> "pending"]
Raised(e) == [kind |-> "raised", exc |-> e]
PlanResponse(id, it, p, d, w) ==
    [kind |-> "PlanResponse", request_id |-> id, itinerary |-> it, parsed |-> p,
     decision |-> d, weather |-> w]

\* the state before any request of the set R has arrived
InitPipeline(R) ==
    /\ pc = [r \in R |-> "idle"]
    /\ query = [r \in R |-> <<>>]
    /\ request_id = [r \in R |-> 0]
    /\ query_preview = [r \in R |-> <<>>]
    /\ parsed = [r \in R |-> Unset]
    /\ decision = [r \in R |-> Unset]
    /\ tool_calls = [r \in R |-> <<>>]
    /\ coords = [r \in R |-> <<>>]
    /\ weather = [r \in R |-> NoneV]
    /\ weather_summary = [r \in R |-> Unknown]
    /\ itinerary = [r \in R |-> Unset]
    /\ exc = [r \in R |-> NoExc]
    /\ result = [r \in R |-> Pending]
    /\ ext_calls = [r \in R |-> <<>>]
    /\ uuids = 0
    /\ audit_log = <<>>
    /\ plans = {}
    /\ REQUESTS_TOTAL = 0
    /\ REQUESTS_OK_TOTAL = 0
    /\ REQUESTS_ERROR_TOTAL = 0
    /\ REQUEST_LATENCY = 0
    /\ LLM_LATENCY = 0
    /\ TOOL_LATENCY = [t \in {"weather"} |-> 0]
    /\ TOOL_CALLS_TOTAL = [t \in {"geocoding", "weather"} |-> 0]

Init ==
    /\ InitPipeline(Requests)
    /\ trip = Unset
    /\ planned = Unset
    /\ call = Unset
    /\ ret = Unset

\* an exception leaves the try block: pick the except clause
Catch(r, e) ==
    /\ exc' = [exc EXCEPT ![r] = e]
    /\ pc' = [pc EXCEPT ![r] = IF e.type = "HTTPException" THEN "except_http"
                                ELSE "except_other"]

\* Receive keeping the whole query as the preview
Receive_keeps_query(r) ==
    /\ pc[r] = "idle"
    /\ \E q \in Queries :
        /\ query' = [query EXCEPT ![r] = q]
        /\ query_preview' = [query_preview EXCEPT ![r] = q]
    /\ REQUESTS_TOTAL' = REQUESTS_TOTAL + 1
    /\ uuids' = uuids + 1
    /\ request_id' = [request_id EXCEPT ![r] = uuids + 1]
    /\ tool_calls' = [tool_calls EXCEPT ![r] = <<>>]
    /\ weather' = [weather EXCEPT ![r] = NoneV]
    /\ weather_summary' = [weather_summary EXCEPT ![r] = Unknown]
    /\ pc' = [pc EXCEPT ![r] = "parse"]
    /\ UNCHANGED <<parsed, decision, coords, itinerary, exc, result, ext_calls,
                   audit_log, plans, REQUESTS_OK_TOTAL, REQUESTS_ERROR_TOTAL,
                   REQUEST_LATENCY, LLM_LATENCY, TOOL_LATENCY, TOOL_CALLS_TOTAL,
                   planner>>

\* lines 389-402: the request arrives
Receive(r) ==
    /\ pc[r] = "idle"
    /\ \E q \in Queries :
        /\ query' = [query EXCEPT ![r] = q]
        /\ query_preview' = [query_preview EXCEPT ![r] = SubSeq(q, 1, Min(PreviewLen, Len(q)))]
    /\ REQUESTS_TOTAL' = REQUESTS_TOTAL + 1
    /\ uuids' = uuids + 1
    /\ request_id' = [request_id EXCEPT ![r] = uuids + 1]
    /\ tool_calls' = [tool_calls EXCEPT ![r] = <<>>]
    /\ weather' = [weather EXCEPT ![r] = NoneV]
    /\ weather_summary' = [weather_summary EXCEPT ![r] = Unknown]
    /\ pc' = [pc EXCEPT ![r] = "parse"]
    /\ UNCHANGED <<parsed, decision, coords, itinerary, exc, result, ext_calls,
                   audit_log, plans, REQUESTS_OK_TOTAL, REQUESTS_ERROR_TOTAL,
                   REQUEST_LATENCY, LLM_LATENCY, TOOL_LATENCY, TOOL_CALLS_TOTAL,
                   planner>>

\* Parse starting the enrichment on the get_weather tag alone
Parse_ignores_destination(r) ==
    /\ pc[r] = "parse"
    /\ ext_calls' = [ext_calls EXCEPT ![r] = Append(@, "llm_parse")]
    /\ \E reply \in ParseReplies :
        LET res == parse_query_with_llm(query[r], reply)
            dec == decide_actions(res.val)
            enrich == InList("get_weather", dec.actions)
        IN IF res.exc.type # "none"
           THEN /\ Catch(r, res.exc)
                /\ UNCHANGED <<parsed, decision, tool_calls, LLM_LATENCY, TOOL_CALLS_TOTAL>>
           ELSE /\ LLM_LATENCY' = LLM_LATENCY + 1
                /\ parsed' = [parsed EXCEPT ![r] = res.val]
                /\ decision' = [decision EXCEPT ![r] = dec]
                /\ IF enrich
                   THEN /\ TOOL_CALLS_TOTAL' =
                             [TOOL_CALLS_TOTAL EXCEPT !["geocoding"] = @ + 1,
                                                      !["weather"] = @ + 1]
                        /\ tool_calls' = [tool_calls EXCEPT ![r] = @ \o <<"geocoding", "weather">>]
                        /\ pc' = [pc EXCEPT ![r] = "geocode"]
                   ELSE /\ UNCHANGED <<TOOL_CALLS_TOTAL, tool_calls>>
                        /\ pc' = [pc EXCEPT ![r] = "generate"]
                /\ UNCHANGED exc
    /\ UNCHANGED <<query, request_id, query_preview, coords, weather, weather_summary,
                   itinerary, result, uuids, audit_log, plans, REQUESTS_TOTAL,
                   REQUESTS_OK_TOTAL, REQUESTS_ERROR_TOTAL, REQUEST_LATENCY,
                   TOOL_LATENCY, planner>>

\* lines 405-411: Trip Parser, Action Planner, tool-call bookkeeping
Parse(r) ==
    /\ pc[r] = "parse"
    /\ ext_calls' = [ext_calls EXCEPT ![r] = Append(@, "llm_parse")]
    /\ \E reply \in ParseReplies :
        LET res == parse_query_with_llm(query[r], reply)
            dec == decide_actions(res.val)
            enrich == InList("get_weather", dec.actions) /\ Truthy(res.val.destination)
        IN IF res.exc.type # "none"
           THEN /\ Catch(r, res.exc)
                /\ UNCHANGED <<parsed, decision, tool_calls, LLM_LATENCY, TOOL_CALLS_TOTAL>>
           ELSE /\ LLM_LATENCY' = LLM_LATENCY + 1
                /\ parsed' = [parsed EXCEPT ![r] = res.val]
                /\ decision' = [decision EXCEPT ![r] = dec]
                /\ IF enrich
                   THEN /\ TOOL_CALLS_TOTAL' =
                             [TOOL_CALLS_TOTAL EXCEPT !["geocoding"] = @ + 1,
                                                      !["weather"] = @ + 1]
                        /\ tool_calls' = [tool_calls EXCEPT ![r] = @ \o <<"geocoding", "weather">>]
                        /\ pc' = [pc EXCEPT ![r] = "geocode"]
                   ELSE /\ UNCHANGED <<TOOL_CALLS_TOTAL, tool_calls>>
                        /\ pc' = [pc EXCEPT ![r] = "generate"]
                /\ UNCHANGED exc
    /\ UNCHANGED <<query, request_id, query_preview, coords, weather, weather_summary,
                   itinerary, result, uuids, audit_log, plans, REQUESTS_TOTAL,
                   REQUESTS_OK_TOTAL, REQUESTS_ERROR_TOTAL, REQUEST_LATENCY,
                   TOOL_LATENCY, planner>>

\* line 413 -> line 319: get_weather_daily calls geocode_city
Geocode(r) ==
    /\ pc[r] = "geocode"
    /\ ext_calls' = [ext_calls EXCEPT ![r] = Append(@, "geocode")]
    /\ \E reply \in GeocodeReplies :
        LET res == geocode_city(parsed[r].destination.v, reply)
        IN IF res.exc.type # "none"
           THEN Catch(r, res.exc) /\ UNCHANGED coords
           ELSE /\ coords' = [coords EXCEPT ![r] = res.val]
                /\ pc' = [pc EXCEPT ![r] = "forecast"]
                /\ UNCHANGED exc
    /\ UNCHANGED <<query, request_id, query_preview, parsed, decision, tool_calls,
                   weather, weather_summary, itinerary, result, uuids, audit_log,
                   plans, metrics, planner>>

\* FetchForecast that carries on without weather when the forecast fails
FetchForecast_degrades(r) ==
    /\ pc[r] = "forecast"
    /\ ext_calls' = [ext_calls EXCEPT ![r] = Append(@, "forecast")]
    /\ \E reply \in ForecastReplies :
        LET res == fetch_forecast(parsed[r].destination.v, coords[r], reply)
            sum == summarize_weather(res.val, EffectiveDays(parsed[r]))
        IN IF res.exc.type # "none"
           THEN /\ pc' = [pc EXCEPT ![r] = "generate"]
                /\ UNCHANGED <<weather, weather_summary, TOOL_LATENCY, exc>>
           ELSE /\ TOOL_LATENCY' = [TOOL_LATENCY EXCEPT !["weather"] = @ + 1]
                /\ weather' = [weather EXCEPT ![r] = res.val]
                /\ IF sum.exc.type # "none"
                   THEN Catch(r, sum.exc) /\ UNCHANGED weather_summary
                   ELSE /\ weather_summary' = [weather_summary EXCEPT ![r] = sum.val]
                        /\ pc' = [pc EXCEPT ![r] = "generate"]
                        /\ UNCHANGED exc
    /\ UNCHANGED <<query, request_id, query_preview, parsed, decision, tool_calls,
                   coords, itinerary, result, uuids, audit_log, plans, REQUESTS_TOTAL,
                   REQUESTS_OK_TOTAL, REQUESTS_ERROR_TOTAL, REQUEST_LATENCY,
                   LLM_LATENCY, TOOL_CALLS_TOTAL, planner>>

\* lines 321-337 and 413-414: forecast request, then summarize_weather
FetchForecast(r) ==
    /\ pc[r] = "forecast"
    /\ ext_calls' = [ext_calls EXCEPT ![r] = Append(@, "forecast")]
    /\ \E reply \in ForecastReplies :
        LET res == fetch_forecast(parsed[r].destination.v, coords[r], reply)
            sum == summarize_weather(res.val, EffectiveDays(parsed[r]))
        IN IF res.exc.type # "none"
           THEN Catch(r, res.exc) /\ UNCHANGED <<weather, weather_summary, TOOL_LATENCY>>
           ELSE /\ TOOL_LATENCY' = [TOOL_LATENCY EXCEPT !["weather"] = @ + 1]
                /\ weather' = [weather EXCEPT ![r] = res.val]
                /\ IF sum.exc.type # "none"
                   THEN Catch(r, sum.exc) /\ UNCHANGED weather_summary
                   ELSE /\ weather_summary' = [weather_summary EXCEPT ![r] = sum.val]
                        /\ pc' = [pc EXCEPT ![r] = "generate"]
                        /\ UNCHANGED exc
    /\ UNCHANGED <<query, request_id, query_preview, parsed, decision, tool_calls,
                   coords, itinerary, result, uuids, audit_log, plans, REQUESTS_TOTAL,
                   REQUESTS_OK_TOTAL, REQUESTS_ERROR_TOTAL, REQUEST_LATENCY,
                   LLM_LATENCY, TOOL_CALLS_TOTAL, planner>>

\* line 417: Itinerary Generator
Generate(r) ==
    /\ pc[r] = "generate"
    /\ ext_calls' = [ext_calls EXCEPT ![r] = Append(@, "llm_generate")]
    /\ \E reply \in GenerateReplies :
        LET res == generate_itinerary_with_llm(parsed[r], weather_summary[r], reply)
        IN IF res.exc.type # "none"
           THEN Catch(r, res.exc) /\ UNCHANGED <<itinerary, LLM_LATENCY>>
           ELSE /\ LLM_LATENCY' = LLM_LATENCY + 1
                /\ itinerary' = [itinerary EXCEPT ![r] = PyList(res.val)]
                /\ pc' = [pc EXCEPT ![r] = "generated"]
                /\ UNCHANGED exc
    /\ UNCHANGED <<query, request_id, query_preview, parsed, decision, tool_calls,
                   coords, weather, weather_summary, result, uuids, audit_log, plans,
                   REQUESTS_TOTAL, REQUESTS_OK_TOTAL, REQUESTS_ERROR_TOTAL,
                   REQUEST_LATENCY, TOOL_LATENCY, TOOL_CALLS_TOTAL, planner>>

\* lines 419-436: success audit entry and success metrics
RecordOk(r) ==
    /\ pc[r] = "generated"
    /\ audit_log' = write_audit_log(audit_log,
          [request_id |-> request_id[r], status |-> "ok",
           query_preview |-> query_preview[r], parsed |-> parsed[r],
           decision |-> decision[r], tool_calls |-> tool_calls[r],
           has_weather |-> weather[r].ty # "none", error |-> NoExc])
    /\ REQUESTS_OK_TOTAL' = REQUESTS_OK_TOTAL + 1
    /\ REQUEST_LATENCY' = REQUEST_LATENCY + 1
    /\ pc' = [pc EXCEPT ![r] = "insert_ok"]
    /\ UNCHANGED <<locals, exc, result, ext_calls, uuids, plans, REQUESTS_TOTAL,
                   REQUESTS_ERROR_TOTAL, LLM_LATENCY, TOOL_LATENCY, TOOL_CALLS_TOTAL,
                   planner>>

\* the keyword arguments of the call at lines 439-449
InsertOkArgs(r) ==
    [plan_id |-> request_id[r], created_at |-> Clock,
     query_preview |-> query_preview[r], parsed |-> parsed[r],
     decision |-> decision[r], weather |-> weather[r], itinerary |-> itinerary[r],
     status |-> "ok", duration_ms |-> Clock]

\* lines 439-461: durable plan record, then the response
InsertOk(r) ==
    /\ pc[r] = "insert_ok"
    /\ LET res == insert_plan(InsertOkArgs(r), plans)
       IN IF res.exc.type # "none"
          THEN Catch(r, res.exc) /\ UNCHANGED <<plans, result>>
          ELSE /\ plans' = res.table
               /\ result' = [result EXCEPT ![r] =
                     PlanResponse(request_id[r], itinerary[r], parsed[r], decision[r],
                                  weather[r])]
               /\ pc' = [pc EXCEPT ![r] = "done"]
               /\ UNCHANGED exc
    /\ UNCHANGED <<locals, ext_calls, uuids, audit_log, metrics, planner>>

\* HandleHTTPException that answers with the generic failure instead of re-raising
HandleHTTPException_masks(r) ==
    /\ pc[r] = "except_http"
    /\ audit_log' = write_audit_log(audit_log,
          [request_id |-> request_id[r], status |-> "error",
           query_preview |-> query_preview[r],
           error |-> [status_code |-> exc[r].status_code, detail |-> exc[r].detail]])
    /\ REQUESTS_ERROR_TOTAL' = REQUESTS_ERROR_TOTAL + 1
    /\ REQUEST_LATENCY' = REQUEST_LATENCY + 1
    /\ result' = [result EXCEPT ![r] =
          Raised(HTTPException(InternalError, <<"Internal server error">>))]
    /\ pc' = [pc EXCEPT ![r] = "done"]
    /\ UNCHANGED <<locals, exc, ext_calls, uuids, plans, REQUESTS_TOTAL,
                   REQUESTS_OK_TOTAL, LLM_LATENCY, TOOL_LATENCY, TOOL_CALLS_TOTAL,
                   planner>>

\* lines 463-478: recognized upstream failure
HandleHTTPException(r) ==
    /\ pc[r] = "except_http"
    /\ audit_log' = write_audit_log(audit_log,
          [request_id |-> request_id[r], status |-> "error",
           query_preview |-> query_preview[r],
           error |-> [status_code |-> exc[r].status_code, detail |-> exc[r].detail]])
    /\ REQUESTS_ERROR_TOTAL' = REQUESTS_ERROR_TOTAL + 1
    /\ REQUEST_LATENCY' = REQUEST_LATENCY + 1
    /\ result' = [result EXCEPT ![r] = Raised(exc[r])]
    /\ pc' = [pc EXCEPT ![r] = "done"]
    /\ UNCHANGED <<locals, exc, ext_calls, uuids, plans, REQUESTS_TOTAL,
                   REQUESTS_OK_TOTAL, LLM_LATENCY, TOOL_LATENCY, TOOL_CALLS_TOTAL,
                   planner>>

\* lines 480-493: any other failure
HandleException(r) ==
    /\ pc[r] = "except_other"
    /\ audit_log' = write_audit_log(audit_log,
          [request_id |-> request_id[r], status |-> "error",
           query_preview |-> query_preview[r],
           error |-> [type |-> exc[r].type, message |-> exc[r].detail]])
    /\ REQUESTS_ERROR_TOTAL' = REQUESTS_ERROR_TOTAL + 1
    /\ REQUEST_LATENCY' = REQUEST_LATENCY + 1
    /\ pc' = [pc EXCEPT ![r] = "insert_err"]
    /\ UNCHANGED <<locals, exc, result, ext_calls, uuids, plans, REQUESTS_TOTAL,
                   REQUESTS_OK_TOTAL, LLM_LATENCY, TOOL_LATENCY, TOOL_CALLS_TOTAL,
                   planner>>

EmptyDict == [ty |-> "dict", v |-> <<>>]

\* the keyword arguments of the call at lines 495-505
InsertErrArgs(r) ==
    [plan_id |-> request_id[r], created_at |-> Clock,
     query_preview |-> query_preview[r], parsed |-> EmptyDict,
     decision |-> EmptyDict, weather |-> NoneV, itinerary |-> PyList(<<>>),
     status |-> "error", duration_ms |-> Clock]

\* lines 495-508: error plan record, then the generic failure.  An exception
\* raised here, inside the except clause, leaves create_plan as it is.
InsertErr(r) ==
    /\ pc[r] = "insert_err"
    /\ LET res == insert_plan(InsertErrArgs(r), plans)
       IN IF res.exc.type # "none"
          THEN /\ result' = [result EXCEPT ![r] = Raised(res.exc)]
               /\ UNCHANGED plans
          ELSE /\ plans' = res.table
               /\ result' = [result EXCEPT ![r] =
                     Raised(HTTPException(InternalError, <<"Internal server error">>))]
    /\ pc' = [pc EXCEPT ![r] = "done"]
    /\ UNCHANGED <<locals, exc, ext_calls, uuids, audit_log, metrics, planner>>

Next ==
    \E r \in DOMAIN pc :
        \/ Receive(r)
        \/ Parse(r)
        \/ Geocode(r)
        \/ FetchForecast(r)
        \/ Generate(r)
        \/ RecordOk(r)
        \/ InsertOk(r)
        \/ HandleHTTPException(r)
        \/ HandleException(r)
        \/ InsertErr(r)

Spec == Init /\ [][Next]_vars

----
\* Concurrent requests: create_plan is a plain def, so the server runs each
\* request on its own worker thread and the steps of the requests interleave.

Concurrent == 1..NumConcurrent

Arrived(r) == pc[r] # "idle"

InitConc ==
    /\ InitPipeline(Concurrent)
    /\ trip = Unset
    /\ planned = Unset
    /\ call = Unset
    /\ ret = Unset

\* the concurrent runs draw from fewer inputs: short and long queries
\* alternate, the parser answers for one trip, geocoding finds the place, the
\* forecast is complete or fails, the itinerary holds only described days
ConcInputs ==
    \A r \in DOMAIN pc :
        /\ Arrived(r) =>
               query[r] = IF r % 2 = 1 THEN Text(5) ELSE Text(PreviewLen + 1)
        /\ "destination" \in DOMAIN parsed[r] => parsed[r].budget_eur = PyInt(800)
        /\ exc[r].type = "HTTPException" => exc[r].detail = <<"Weather API failed">>
        /\ weather[r].ty = "WeatherResult" => weather[r].daily = Forecast(MaxForecast)
        /\ itinerary[r].ty = "list" =>
               \A i \in 1..Len(itinerary[r].v) : itinerary[r].v[i].day = 0

NextConc == Next /\ ConcInputs'

SpecConc == InitConc /\ [][NextConc]_vars

----
\* Action Planner on its own: decide_actions applied to any accepted record

InterestLists ==
    {PyList(<<>>), PyList(<<PyStr(s_food)>>)}
    \cup {PyList([i \in 1..n |-> IF i = 1 THEN PyStr(s_culture) ELSE PyStr(s_food)]) :
            n \in 2..MaxInterests}

Trips ==
    {ParsedTrip(d, m, NoneV, i, NoneV, dest) :
        d \in {NoneV, PyInt(DaysMin), PyInt(DaysMax)},
        m \in {NoneV, PyStr(<<>>), PyStr(s_May), PyInt(0), PyInt(5)},
        i \in InterestLists,
        dest \in {NoneV, PyStr(<<>>), PyStr(s_Lisbon)}}

InitPlanner ==
    /\ InitPipeline({})
    /\ trip \in Trips
    /\ planned = Unset
    /\ call = Unset
    /\ ret = Unset

Decide ==
    /\ planned = Unset
    /\ planned' = decide_actions(trip)
    /\ UNCHANGED <<pc, locals, exc, result, ext_calls, uuids, audit_log, plans,
                   metrics, trip, call, ret>>

NextPlanner == Decide

SpecPlanner == InitPlanner /\ [][NextPlanner]_vars

----
\* Observations used by the properties

AuditEntries(id) == {i \in 1..Len(audit_log) : audit_log[i].request_id = id}

PlanRows(id) == {row \in plans : row.id = id}

Done(r) == pc[r] = "done"

\* parser, enrichment (if it ran) and generator all returned
StagesSucceeded(r) == itinerary[r].ty = "list"

RecognizedFailure(r) == exc[r].type = "HTTPException"

UnrecognizedFailure(r) == exc[r].type \notin {"none", "HTTPException"}

EnrichmentAttempted(r) == InList("geocode", ext_calls[r])

EnrichmentCompleted(r) ==
    weather[r].ty = "WeatherResult" /\ weather_summary[r] # Unknown

GenericFailure == HTTPException(InternalError, <<"Internal server error">>)

----
\* C1: every request handled by create_plan appends exactly one audit entry
\* for its request identifier on every path: never two, and one once it ended.
C1_ExactlyOneAuditEntry ==
    \A r \in DOMAIN pc :
        /\ Cardinality(AuditEntries(request_id[r])) <= 1
        /\ Done(r) => Cardinality(AuditEntries(request_id[r])) = 1

\* C2: when parser, enrichment (if run) and generator all succeed, the request
\* ends by returning the composed response and its only audit entry is "ok".
C2_SuccessResponds ==
    \A r \in DOMAIN pc :
        (Done(r) /\ StagesSucceeded(r)) =>
            /\ result[r] = PlanResponse(request_id[r], itinerary[r], parsed[r],
                                        decision[r], weather[r])
            /\ Cardinality(AuditEntries(request_id[r])) = 1
            /\ \A i \in AuditEntries(request_id[r]) : audit_log[i].status = "ok"

\* C3: a request whose stages all succeeded leaves exactly one plan record
\* with status "ok" under its identifier; a request that ended in an
\* unrecognized failure leaves exactly one with status "error" and empty
\* contents; a recognized upstream failure leaves none.
C3_PlanRecordPerOutcome ==
    \A r \in DOMAIN pc :
        Done(r) =>
            /\ StagesSucceeded(r) =>
                  /\ Cardinality(PlanRows(request_id[r])) = 1
                  /\ \A row \in PlanRows(request_id[r]) : row.status = "ok"
            /\ (UnrecognizedFailure(r) /\ ~StagesSucceeded(r)) =>
                  /\ Cardinality(PlanRows(request_id[r])) = 1
                  /\ \A row \in PlanRows(request_id[r]) :
                        /\ row.status = "error"
                        /\ row.parsed_json = EmptyDict
                        /\ row.itinerary_json = PyList(<<>>)
            /\ RecognizedFailure(r) => PlanRows(request_id[r]) = {}

\* C4: a recognized upstream failure (HTTPException) from the parser, the
\* enrichment fetcher or the generator ends the request with exactly one audit
\* entry, of status "error" and carrying that failure's status code and
\* detail, with no plan record, and with the same failure re-raised.
C4_RecognizedFailurePropagates ==
    \A r \in DOMAIN pc :
        (Done(r) /\ RecognizedFailure(r)) =>
            /\ Cardinality(AuditEntries(request_id[r])) = 1
            /\ \A i \in AuditEntries(request_id[r]) :
                  /\ audit_log[i].status = "error"
                  /\ audit_log[i].error =
                        [status_code |-> exc[r].status_code, detail |-> exc[r].detail]
            /\ PlanRows(request_id[r]) = {}
            /\ result[r] = Raised(exc[r])
            /\ result[r].exc.status_code = BadGateway

\* a request that failed because geocoding returned zero candidates has ended
C4_Witness ==
    \E r \in DOMAIN pc :
        /\ Done(r)
        /\ RecognizedFailure(r)
        /\ exc[r].detail = <<"Geocoding returned no results for", s_Atlantis>>
        /\ result[r].kind = "raised"

\* C5: any failure other than a recognized upstream failure is audited with
\* its type name and message, the handler completes, and the caller receives
\* the generic HTTP 500 "Internal server error" failure.
C5_UnrecognizedFailureMasked ==
    \A r \in DOMAIN pc :
        (Done(r) /\ UnrecognizedFailure(r)) =>
            /\ \E i \in AuditEntries(request_id[r]) :
                  /\ audit_log[i].status = "error"
                  /\ audit_log[i].error = [type |-> exc[r].type, message |-> exc[r].detail]
            /\ result[r] = Raised(GenericFailure)

\* C6: once every request has ended, the request counter equals the success
\* counter plus the error counter, and the latency histogram holds one
\* observation per request.
C6_CountersBalance ==
    (\A r \in DOMAIN pc : Done(r)) =>
        /\ REQUESTS_TOTAL = REQUESTS_OK_TOTAL + REQUESTS_ERROR_TOTAL
        /\ REQUEST_LATENCY = REQUESTS_TOTAL

\* C7: the generator is called only when enrichment was skipped or completed;
\* a request whose attempted enrichment failed never calls the generator and
\* never returns an itinerary.
C7_GenerateOnlyAfterEnrichment ==
    \A r \in DOMAIN pc :
        /\ InList("llm_generate", ext_calls[r]) =>
              (~EnrichmentAttempted(r) \/ EnrichmentCompleted(r))
        /\ (EnrichmentAttempted(r) /\ ~EnrichmentCompleted(r)
              /\ pc[r] \notin {"geocode", "forecast"}) =>
              /\ ~InList("llm_generate", ext_calls[r])
              /\ itinerary[r] = Unset
              /\ result[r].kind # "PlanResponse"

\* the forecast fetch failed after geocoding succeeded, and the request ended
C7_Witness ==
    \E r \in DOMAIN pc :
        /\ Done(r)
        /\ ext_calls[r] = <<"llm_parse", "geocode", "forecast">>
        /\ exc[r].detail = <<"Weather API failed">>

----
\* Properties of the Action Planner (checked under SpecPlanner)

Decided == "actions" \in DOMAIN planned

Rank(a) ==
    CASE a = "need_destination" -> 1
      [] a = "get_weather"      -> 2
      [] a = "get_attractions"  -> 3
      [] a = "basic_plan"       -> 4

\* C8: for every accepted record whose destination is absent or empty, the
\* actions contain need_destination and neither get_weather nor
\* get_attractions, whatever the month and interests are.
C8_NoDestinationNoTools ==
    (Decided /\ ~Truthy(trip.destination)) =>
        /\ InList("need_destination", planned.actions)
        /\ ~InList("get_weather", planned.actions)
        /\ ~InList("get_attractions", planned.actions)

\* C9: decide_actions returns at least one action, as many notes as actions,
\* and basic_plan exactly when none of rules 1-3 applies (destination given,
\* no month, no interests), in which case basic_plan is the only action.
C9_PlannerShape ==
    Decided =>
        /\ Len(planned.actions) >= 1
        /\ Len(planned.notes) = Len(planned.actions)
        /\ InList("basic_plan", planned.actions) <=>
              (Truthy(trip.destination) /\ ~Truthy(trip.month) /\ ~Truthy(trip.interests))
        /\ InList("basic_plan", planned.actions) => planned.actions = <<"basic_plan">>

\* the fallback rule fired
C9_Witness == Decided /\ planned.actions = <<"basic_plan">>

\* C10: with a destination given, get_weather is among the actions exactly
\* when the month is given (non-empty, non-zero) and get_attractions exactly
\* when the interests list is non-empty; the tags always appear in the order
\* need_destination, get_weather, get_attractions.
C10_ToolsFollowInputs ==
    Decided =>
        /\ trip.destination.ty # "none" =>
              /\ InList("get_weather", planned.actions) <=> Truthy(trip.month)
              /\ InList("get_attractions", planned.actions) <=> Truthy(trip.interests)
        /\ \A i, j \in 1..Len(planned.actions) :
              i < j => Rank(planned.actions[i]) < Rank(planned.actions[j])

\* both tools selected for a record with destination, month and interests
C10_Witness ==
    /\ Decided
    /\ Truthy(trip.destination)
    /\ planned.actions = <<"get_weather", "get_attractions">>

----
\* Stand-alone calls of the pure functions

s_A == <<"A">>
s_B == <<"B">>
s_C == <<"C">>
s_N == <<"N">>
k_day1 == <<"d", "a", "y", "1">>
k_day2 == <<"d", "a", "y", "2">>
k_day10 == <<"d", "a", "y", "1", "0">>
k_day999 == <<"d", "a", "y", "9", "9", "9">>
k_day1000 == <<"d", "a", "y", "1", "0", "0", "0">>
k_notes == <<"n", "o", "t", "e", "s">>

\* mappings a model may answer with, values pairwise distinct
ItineraryMappings ==
    { <<Item(k_day2, PyStr(s_B)), Item(k_day1, PyStr(s_A)), Item(k_day10, PyStr(s_C))>>,
      <<Item(k_day1, PyStr(s_A)), Item(k_day2, PyInt(5)), Item(k_day10, PyStr(s_C))>>,
      <<Item(k_notes, PyStr(s_N)), Item(k_day2, PyStr(s_B)), Item(k_day1, PyStr(s_A))>>,
      <<Item(k_day1000, PyStr(s_A)), Item(k_notes, PyStr(s_N))>>,
      <<Item(k_day999, PyStr(s_A)), Item(k_notes, PyStr(s_N))>>,
      <<Item(k_notes, PyStr(s_N)), Item(k_day999, PyStr(s_A))>>,
      <<Item(k_day1, PyInt(1)), Item(k_notes, PyList(<<>>))>>,
      <<>> }

ItineraryReplies ==
    {[kind |-> "RequestError"], [kind |-> "text", json |-> JsonInvalid],
     [kind |-> "text", json |-> PyList(<<PyInt(1)>>)],
     [kind |-> "text", json |-> PyInt(3)]}
    \cup {[kind |-> "text", json |-> PyList([i \in 1..m |-> DayText(i)])] : m \in 0..MaxReply}
    \cup {[kind |-> "text", json |-> JsonItems(m)] : m \in ItineraryMappings}

DayCounts == {NoneV} \cup {PyInt(n) : n \in DaysMin..DaysMax}

GenerateCalls ==
    {[fn |-> "generate_itinerary_with_llm",
      parsed |-> ParsedTrip(d, NoneV, NoneV, PyList(<<>>), NoneV, PyStr(s_Lisbon)),
      reply |-> r] : d \in DayCounts, r \in ItineraryReplies}

Absent == [ty |-> "absent", v |-> 0]

\* the mapping with the given fields, a field that is Absent left out
MkDict(days, budget, interests) ==
    LET m == [days |-> days, budget_eur |-> budget, interests |-> interests]
    IN [k \in {x \in DOMAIN m : m[x].ty # "absent"} |-> m[k]]

DaysTexts ==
    {<<"4">>,
     <<" ", "1", "2", " ">>,
     <<"a", "b", "c">>,
     <<>>,
     <<"4", " ", "5">>,
     <<"0", "0", "7">>}

BudgetTexts ==
    {<<"8", "0", "0">>,
     <<"x">>}

InterestsTexts ==
    {<<>>,
     <<" ">>,
     <<"a", "r", "t">>,
     <<" ", "a", "r", "t", " ">>,
     <<"a", "r", "t", ",", " ", "f", "o", "o", "d">>,
     <<"a", "r", "t", ",", ",", "f", "o", "o", "d">>,
     <<",">>,
     <<"[", "\"", "a", "r", "t", "\"", "]">>,
     <<"[", "\"", "a", "r", "t", "\"", ",", " ", "\"", "f", "o", "o", "d", "\"", "]">>,
     <<"[", "]">>,
     <<"[", "1", "]">>,
     <<"4">>,
     <<"\"", "a", "r", "t", "\"">>,
     <<"[", "a", "r", "t">>,
     <<"[", "a", "r", "t", ",", " ", "f", "o", "o", "d", "]">>}

NormalizeCalls ==
    {[fn |-> "normalize_llm_trip_dict", d |-> MkDict(a, b, c)] :
        a \in {Absent, NoneV, PyInt(4)} \cup {PyStr(t) : t \in DaysTexts},
        b \in {Absent, PyInt(800)} \cup {PyStr(t) : t \in BudgetTexts},
        c \in {Absent, NoneV, PyList(<<>>), PyList(<<PyStr(s_food)>>)}
               \cup {PyStr(t) : t \in InterestsTexts}}

\* a forecast whose four arrays have the given lengths
Ragged(a, b, c, d) ==
    [time |-> PyList([i \in 1..a |-> i]),
     temperature_2m_max |-> PyList([i \in 1..b |-> 20 + i]),
     temperature_2m_min |-> PyList([i \in 1..c |-> 10 + i]),
     precipitation_sum |-> PyList([i \in 1..d |-> i])]

\* forecasts with an array missing or null
PartialDailies ==
    {[temperature_2m_max |-> PyList(<<21>>), temperature_2m_min |-> PyList(<<11>>),
      precipitation_sum |-> PyList(<<1>>)],
     [time |-> NoneV, temperature_2m_max |-> PyList(<<21>>),
      temperature_2m_min |-> PyList(<<11>>), precipitation_sum |-> PyList(<<1>>)],
     [time |-> PyList(<<1>>)]}

SummarizeCalls ==
    {[fn |-> "summarize_weather",
      parsed |-> ParsedTrip(h, NoneV, NoneV, PyList(<<>>), NoneV, PyStr(s_Lisbon)),
      weather |-> WeatherResult(s_Lisbon, 38, -9, daily)] :
        h \in {NoneV, PyInt(DaysMin), PyInt(2), PyInt(DaysMax)},
        daily \in {Ragged(a, b, c, d) : a, b, c, d \in 0..MaxArray} \cup PartialDailies}

Calls == GenerateCalls \cup NormalizeCalls \cup SummarizeCalls

InitCalls ==
    /\ InitPipeline({})
    /\ trip = Unset
    /\ planned = Unset
    /\ call \in Calls
    /\ ret = Unset

Returned == "exc" \in DOMAIN ret

CallGenerate ==
    /\ call.fn = "generate_itinerary_with_llm"
    /\ ~Returned
    /\ ret' = generate_itinerary_with_llm(call.parsed, Unknown, call.reply)
    /\ UNCHANGED <<pc, locals, exc, result, ext_calls, uuids, audit_log, plans,
                   metrics, trip, planned, call>>

CallNormalize ==
    /\ call.fn = "normalize_llm_trip_dict"
    /\ ~Returned
    /\ ret' = Return(normalize_llm_trip_dict(call.d))
    /\ UNCHANGED <<pc, locals, exc, result, ext_calls, uuids, audit_log, plans,
                   metrics, trip, planned, call>>

\* lines 413-414: summarize_weather(weather, max_days=parsed.days or 4)
CallSummarize ==
    /\ call.fn = "summarize_weather"
    /\ ~Returned
    /\ ret' = summarize_weather(call.weather, EffectiveDays(call.parsed))
    /\ UNCHANGED <<pc, locals, exc, result, ext_calls, uuids, audit_log, plans,
                   metrics, trip, planned, call>>

NextCalls ==
    \/ CallGenerate
    \/ CallNormalize
    \/ CallSummarize

SpecCalls == InitCalls /\ [][NextCalls]_vars

----
\* Properties of the Itinerary Generator (checked under SpecCalls)

GenerateReturned == Returned /\ call.fn = "generate_itinerary_with_llm"

\* the effective day count: the requested days, or 4 when unspecified
RequestedDays ==
    IF call.parsed.days.ty = "none" THEN DefaultDays ELSE call.parsed.days.v

RepliedList ==
    /\ call.reply.kind = "text"
    /\ call.reply.json.ty = "list"
    /\ \A i \in 1..Len(call.reply.json.v) : call.reply.json.v[i].ty = "str"

RepliedMapping == call.reply.kind = "text" /\ call.reply.json.ty = "items"

\* positions of the mapping's items whose value is a string
StringItems ==
    {i \in 1..Len(call.reply.json.v) : call.reply.json.v[i].val.ty = "str"}

\* number of day-descriptions the reply yields
Yielded ==
    IF RepliedList THEN Len(call.reply.json.v) ELSE Cardinality(StringItems)

\* C11: for every effective day count N and every accepted reply yielding M
\* day-descriptions, the generator returns exactly N entries: the first
\* min(M,N) replied entries in order, then "Day k: Free exploration." for
\* every position k with M < k <= N.
C11_ExactLength ==
    (GenerateReturned /\ (RepliedList \/ (RepliedMapping /\ StringItems # {}))) =>
        /\ ret.exc.type = "none"
        /\ Len(ret.val) = RequestedDays
        /\ \A k \in 1..RequestedDays :
              IF k <= Yielded
              THEN IF RepliedList
                   THEN ret.val[k] = Described(call.reply.json.v[k].v)
                   ELSE \E i \in StringItems :
                           ret.val[k] = Described(call.reply.json.v[i].val.v)
              ELSE ret.val[k] = Placeholder(k)

\* three replied entries padded to the default four, and a reply cut to two
C11_Witness ==
    /\ GenerateReturned
    /\ RepliedList
    /\ \/ /\ call.parsed.days.ty = "none"
          /\ Yielded = 3
          /\ ret.val = <<Described(<<"d", "1">>), Described(<<"d", "2">>),
                         Described(<<"d", "3">>), Placeholder(4)>>
       \/ /\ RequestedDays = 2
          /\ Yielded = 3
          /\ ret.val = <<Described(<<"d", "1">>), Described(<<"d", "2">>)>>

HasDigits(k) == digits_of(k) # <<>>

\* the integer embedded in a label
LabelInt(k) == int(digits_of(k))

\* position in the returned itinerary of the value of the mapping's item i
PosOf(i) ==
    LET hits == {n \in 1..Len(ret.val) :
                    ret.val[n] = Described(call.reply.json.v[i].val.v)}
    IN IF hits = {} THEN 0 ELSE CHOOSE n \in hits : TRUE

\* C15: a mapping reply gives its string values ordered by the integer
\* embedded in each label, numerically; non-string values are discarded;
\* every label without digits comes after every label with digits; a mapping
\* with no string value fails as a malformed itinerary.
C15_MappingOrder ==
    (GenerateReturned /\ RepliedMapping) =>
        IF StringItems = {}
        THEN ret.exc = HTTPException(BadGateway, <<"LLM returned invalid itinerary JSON">>)
        ELSE /\ ret.exc.type = "none"
             /\ Cardinality({n \in 1..Len(ret.val) : ret.val[n].day = 0})
                   = Min(Yielded, RequestedDays)
             /\ \A i, j \in StringItems :
                   LET ki == call.reply.json.v[i].k
                       kj == call.reply.json.v[j].k
                   IN (\/ HasDigits(ki) /\ HasDigits(kj) /\ LabelInt(ki) < LabelInt(kj)
                       \/ HasDigits(ki) /\ ~HasDigits(kj))
                      => (PosOf(j) # 0 => (PosOf(i) # 0 /\ PosOf(i) < PosOf(j)))

----
\* Properties of the Normalizer (checked under SpecCalls)

NormalizeReturned == Returned /\ call.fn = "normalize_llm_trip_dict"

\* C12: the Normalizer is idempotent: applied to its own output it yields
\* that output again, whatever days, budget and interests were given.
C12_Idempotent ==
    NormalizeReturned => normalize_llm_trip_dict(ret.val) = ret.val

\* a mapping that the Normalizer changed in all three fields
C12_Witness ==
    /\ NormalizeReturned
    /\ Get(call.d, "days").ty = "str"
    /\ Get(call.d, "budget_eur").ty = "str"
    /\ Get(call.d, "interests").ty = "str"
    /\ ret.val = MkDict(PyInt(12), PyInt(800), PyList(<<PyStr(s_culture), PyStr(s_food)>>))

\* the list the interests text stands for: the decoded list, else the trimmed
\* comma-separated pieces, else the text alone, else nothing
InterestsOf(text) ==
    LET s == strip(text)
    IN IF json_loads(s).ok /\ json_loads(s).val.ty = "list" THEN json_loads(s).val
       ELSE IF Find(s, ",", 1) # 0 THEN PyList(stripped_nonempty(split(s)))
       ELSE IF s # <<>> THEN PyList(<<PyStr(s)>>)
       ELSE PyList(<<>>)

\* C13: whenever the interests field given to the Normalizer is a string, the
\* output interests field is a list: the decoded JSON list, otherwise the
\* trimmed comma-separated pieces if there is a comma, otherwise the single
\* non-empty string, or the empty list for a blank string.
C13_InterestsBecomeList ==
    (NormalizeReturned /\ Get(call.d, "interests").ty = "str") =>
        /\ ret.val["interests"].ty = "list"
        /\ ret.val["interests"] = InterestsOf(call.d["interests"].v)

----
\* Properties of summarize_weather (checked under SpecCalls)

SummarizeReturned == Returned /\ call.fn = "summarize_weather"

\* the horizon: the requested days, or 4 when unspecified
Horizon == IF call.parsed.days.ty = "none" THEN DefaultDays ELSE call.parsed.days.v

\* the forecast's array under key k, empty when missing or null
Column(k) ==
    IF k \in DOMAIN call.weather.daily /\ call.weather.daily[k].ty = "list"
    THEN call.weather.daily[k].v
    ELSE <<>>

DayLines ==
    Min(Horizon,
        Min(Min(Len(Column("time")), Len(Column("temperature_2m_max"))),
            Min(Len(Column("temperature_2m_min")), Len(Column("precipitation_sum")))))

\* C16: summarize_weather emits exactly min(H, len(dates), len(max),
\* len(min), len(rain)) day lines, taken from the first positions in order,
\* and returns "No forecast available." exactly when that count is zero.
C16_SummaryLines ==
    SummarizeReturned =>
        /\ ret.exc.type = "none"
        /\ (ret.val = NoForecast) <=> (DayLines = 0)
        /\ DayLines > 0 =>
              /\ ret.val.ty = "lines"
              /\ Len(ret.val.v) = DayLines
              /\ \A i \in 1..DayLines :
                    ret.val.v[i] =
                        [date |-> Column("time")[i],
                         tmin |-> Column("temperature_2m_min")[i],
                         tmax |-> Column("temperature_2m_max")[i],
                         rain |-> Column("precipitation_sum")[i]]

\* the default horizon of 4 cuts a five-day forecast
C16_Witness ==
    /\ SummarizeReturned
    /\ call.parsed.days.ty = "none"
    /\ Len(Column("time")) = 5
    /\ ret.val.ty = "lines"
    /\ Len(ret.val.v) = DefaultDays

----
\* Properties of the outbound calls (checked under Spec)

IsPrefix(a, b) == Len(a) <= Len(b) /\ SubSeq(b, 1, Len(a)) = a

AllCalls == <<"llm_parse", "geocode", "forecast", "llm_generate">>

\* the calls a request makes if none of them fails
ExpectedCalls(r) ==
    IF "actions" \notin DOMAIN decision[r] THEN <<"llm_parse">>
    ELSE IF InList("get_weather", decision[r].actions) /\ Truthy(parsed[r].destination)
         THEN AllCalls
         ELSE <<"llm_parse", "llm_generate">>

\* C14: the outbound calls of a request are a prefix of LLM parse, geocode,
\* forecast, LLM generate, with geocode and forecast left out exactly when
\* get_weather is not selected or no destination is given; no call is made
\* twice, forecast comes only after a successful geocode, every call is made
\* when nothing failed, and no call follows a failure.
C14_CallSequence ==
    /\ [](\A r \in DOMAIN pc :
            /\ IsPrefix(ext_calls[r], ExpectedCalls(r))
            /\ InList("forecast", ext_calls[r]) => coords[r] # <<>>
            /\ StagesSucceeded(r) => ext_calls[r] = ExpectedCalls(r))
    /\ [][\A r \in DOMAIN pc :
            exc[r].type # "none" => ext_calls'[r] = ext_calls[r]]_vars

\* one request made all four calls, in order
C14_Witness == \E r \in DOMAIN pc : ext_calls[r] = AllCalls /\ Done(r)

\* C18: every audit entry and every plan record holds as query text the first
\* 200 characters of its request's query and nothing longer; for a longer
\* query no persisted record holds the full text, on any path.
C18_OnlyPreviewStored ==
    \A r \in DOMAIN pc :
        LET first == SubSeq(query[r], 1, Min(PreviewLen, Len(query[r])))
        IN /\ \A i \in AuditEntries(request_id[r]) :
                 /\ audit_log[i].query_preview = first
                 /\ Len(audit_log[i].query_preview) <= PreviewLen
                 /\ Len(query[r]) > PreviewLen => audit_log[i].query_preview # query[r]
           /\ \A row \in PlanRows(request_id[r]) :
                 /\ row.query_preview = first
                 /\ Len(row.query_preview) <= PreviewLen
                 /\ Len(query[r]) > PreviewLen => row.query_preview # query[r]

\* a request with a query of more than 200 characters left an "ok" and an
\* "error" audit entry, each with a 200 character preview
C18_Witness ==
    \E r \in DOMAIN pc :
        /\ Done(r)
        /\ Len(query[r]) > PreviewLen
        /\ \E i, j \in AuditEntries(request_id[r]) :
              /\ audit_log[i].status = "ok"
              /\ audit_log[j].status = "error"
              /\ Len(audit_log[i].query_preview) = PreviewLen
              /\ Len(audit_log[j].query_preview) = PreviewLen

\* C19: a tool invocation is counted only if it happened: once all requests
\* have ended, the "weather" counter does not exceed the number of requests
\* that called the forecast endpoint, the "geocoding" counter does not exceed
\* the number that called the geocoding endpoint, and a request's tool-call
\* list names only tools it called.
C19_CountedOnlyIfCalled ==
    (\A r \in DOMAIN pc : Done(r)) =>
        /\ TOOL_CALLS_TOTAL["weather"]
              <= Cardinality({r \in DOMAIN pc : InList("forecast", ext_calls[r])})
        /\ TOOL_CALLS_TOTAL["geocoding"]
              <= Cardinality({r \in DOMAIN pc : InList("geocode", ext_calls[r])})
        /\ \A r \in DOMAIN pc :
              /\ InList("weather", tool_calls[r]) => InList("forecast", ext_calls[r])
              /\ InList("geocoding", tool_calls[r]) => InList("geocode", ext_calls[r])

----
\* Properties of concurrent requests (checked under SpecConc)

\* everything create_plan holds for one request
Own(r) ==
    <<pc[r], query[r], request_id[r], query_preview[r], parsed[r], decision[r],
      tool_calls[r], coords[r], weather[r], weather_summary[r], itinerary[r],
      exc[r], result[r], ext_calls[r]>>

\* a record with this identifier, query text and status was written by request r
WrittenBy(id, preview, status, r) ==
    /\ Arrived(r)
    /\ id = request_id[r]
    /\ preview = SubSeq(query[r], 1, Min(PreviewLen, Len(query[r])))
    /\ status = "ok" => StagesSucceeded(r)
    /\ status = "error" => exc[r].type # "none"

\* C17: under any interleaving of concurrent requests, identifiers of distinct
\* requests differ, every audit entry and plan record carries the identifier,
\* truncated query and status of the request that wrote it, and every step is
\* the step of one request: it leaves all that the other requests hold (their
\* response included) unchanged, leaves every audit entry and plan record
\* already written in place, and adds at most one audit entry and only plan
\* records under the stepping request's identifier.
C17_RequestsIsolated ==
    /\ [](/\ \A r1, r2 \in DOMAIN pc :
               Arrived(r1) /\ Arrived(r2) /\ r1 # r2 => request_id[r1] # request_id[r2]
          /\ \A i \in 1..Len(audit_log) : \E r \in DOMAIN pc :
               WrittenBy(audit_log[i].request_id, audit_log[i].query_preview,
                         audit_log[i].status, r)
          /\ \A row \in plans : \E r \in DOMAIN pc :
               WrittenBy(row.id, row.query_preview, row.status, r))
    /\ [][\E r \in DOMAIN pc :
            /\ \A o \in DOMAIN pc \ {r} : Own(o)' = Own(o)
            /\ IsPrefix(audit_log, audit_log')
            /\ Len(audit_log') <= Len(audit_log) + 1
            /\ Len(audit_log') > Len(audit_log) =>
                   audit_log'[Len(audit_log')].request_id = request_id[r]
            /\ plans \subseteq plans'
            /\ \A row \in plans' \ plans : row.id = request_id[r]]_vars

\* two requests ended, one failed at an external call and the other passed
\* every stage, and the failing request wrote its audit entry between the two
\* entries of the other one
C17_Witness ==
    \E a, b \in DOMAIN pc :
        /\ a # b /\ Done(a) /\ Done(b)
        /\ StagesSucceeded(a) /\ RecognizedFailure(b)
        /\ Len(audit_log) = 3
        /\ audit_log[1].request_id = request_id[a] /\ audit_log[1].status = "ok"
        /\ audit_log[2].request_id = request_id[b] /\ audit_log[2].status = "error"
        /\ audit_log[3].request_id = request_id[a] /\ audit_log[3].status = "error"

====
